---- MODULE Spec2Model ----
(***************************************************************************)
(* A model of the Sidecar Tauri backend (src/sidecar/src-tauri/src/lib.rs): *)
(* the process-wide AppState (one SQLite connection, one derived AES key,   *)
(* one CSRF map, each behind its own parking_lot Mutex), the OS keyring,    *)
(* and the commands that the front end invokes on them from several         *)
(* threads.  A command is a sequence of steps of the calling thread: the    *)
(* call, the steps it takes before locking, the acquisition of the mutex,   *)
(* and the body run under the guard, which ends with the return that drops  *)
(* the guard.  The arguments of a command are private to its thread until   *)
(* the step that first reads them, so that step is where the model draws    *)
(* them.                                                                    *)
(***************************************************************************)
EXTENDS Integers, Sequences, FiniteSets, TLC

VARIABLES
    db,              \* AppState.db: <<>> (None) or <<conn>> (Some(conn))
    encryption_key,  \* AppState.encryption_key: <<>> or <<key>>, key a 32-byte sequence
    oauth_states,    \* AppState.oauth_states: a function provider -> token (HashMap)
    mutex,           \* owner of each of the three Mutexes, 0 when unlocked
    files,           \* the SQLite files on disk: path -> the value n of the counter row
    opened,          \* number of connections opened so far (connection identity)
    keyring,         \* the OS keyring under KEYRING_SERVICE: provider -> secret
    pc,              \* where each thread is in the command it runs
    call,            \* the command each thread runs, "none" between commands
    loc,             \* the locals of the command each thread runs
    last,            \* observer: the command that returned in the last step, if one did
    csrf,            \* observer: per provider and token, what the calls made of it
    incs,            \* observer: per file, the counter increments that returned Ok
    initialized,     \* observer: the slots an initialization has returned Ok for
    sealed,          \* observer: the last envelope encrypt_data returned, and from what
    cells,           \* the SQLite files on disk: path -> the value of column v of table vals
    bound,           \* observer: per file, the JSON value last bound into column v
    passphrase,      \* observer: the passphrase of the last init_encryption
    purged,          \* observer: per provider, the deletions that returned Ok since a store
    race             \* observer: the validations that ran against the one that won last

vars == <<db, encryption_key, oauth_states, mutex, files, opened, keyring,
          pc, call, loc, last, csrf, incs, initialized, sealed,
          cells, bound, passphrase, purged, race>>

shared == <<db, encryption_key, oauth_states, files, cells, keyring>>

-----------------------------------------------------------------------------
(* Bounds of the model.                                                     *)

NThreads == 2
MaxOpen == 2
MaxCount == 2
NNonces == 2

Threads == 1..NThreads

-----------------------------------------------------------------------------
(* Option and Result values.                                                *)

None == <<>>
Some(v) == <<v>>
IsSome(o) == o # <<>>
Unwrap(o) == o[1]

Ok(v) == [tag |-> "Ok", val |-> v]
Err(kind, msg) == [tag |-> "Err", kind |-> kind, msg |-> msg]
IsOk(r) == r.tag = "Ok"
IsErr(r) == r.tag = "Err"
Unit == "()"

NoLocal == <<>>
NoLast == [op |-> "none", a1 |-> <<>>, a2 |-> <<>>, ret |-> [tag |-> "none"]]

-----------------------------------------------------------------------------
(* The three mutexes of AppState and the steps common to all commands.      *)

Mutexes == {"db", "encryption_key", "oauth_states"}

MutexOf(op) ==
    CASE op \in {"db_init", "db_execute", "db_query"} -> "db"
      [] op \in {"init_encryption", "encrypt_data", "decrypt_data"} -> "encryption_key"
      [] op \in {"store_oauth_state", "validate_oauth_state"} -> "oauth_states"

LockFreeUnchecked(m) == TRUE

\* parking_lot::Mutex::lock returns only when no other guard is alive
LockFree(m) == mutex[m] = 0

Holds(t, m) == mutex[m] = t

\* a thread enters command op and goes to its first step
Enter(t, op, first) ==
    /\ pc[t] = "idle"
    /\ pc' = [pc EXCEPT ![t] = first]
    /\ call' = [call EXCEPT ![t] = op]
    /\ last' = NoLast
    /\ UNCHANGED <<db, encryption_key, oauth_states, mutex, files, opened, keyring,
                   loc, csrf, incs, initialized, sealed>>
    /\ UNCHANGED <<cells, bound, passphrase, purged, race>>

\* state.<field>.lock(): the thread blocks until the mutex is free
Lock(t) ==
    /\ pc[t] = "lock"
    /\ LockFree(MutexOf(call[t]))
    /\ mutex' = [mutex EXCEPT ![MutexOf(call[t])] = t]
    /\ pc' = [pc EXCEPT ![t] = "held"]
    /\ last' = NoLast
    /\ UNCHANGED <<db, encryption_key, oauth_states, files, opened, keyring,
                   call, loc, csrf, incs, initialized, sealed>>
    /\ UNCHANGED <<cells, bound, passphrase, purged, race>>

ReturnKeepsGuardOnError(t, a1, a2, r) ==
    /\ pc' = [pc EXCEPT ![t] = "idle"]
    /\ call' = [call EXCEPT ![t] = "none"]
    /\ loc' = [loc EXCEPT ![t] = NoLocal]
    /\ mutex' = [m \in Mutexes |-> IF mutex[m] = t /\ IsOk(r) THEN 0 ELSE mutex[m]]
    /\ last' = [op |-> call[t], a1 |-> a1, a2 |-> a2, ret |-> r]

\* the command of thread t returns r for arguments a1, a2; the guard it holds
\* (if any) is dropped with its locals
Return(t, a1, a2, r) ==
    /\ pc' = [pc EXCEPT ![t] = "idle"]
    /\ call' = [call EXCEPT ![t] = "none"]
    /\ loc' = [loc EXCEPT ![t] = NoLocal]
    /\ mutex' = [m \in Mutexes |-> IF mutex[m] = t THEN 0 ELSE mutex[m]]
    /\ last' = [op |-> call[t], a1 |-> a1, a2 |-> a2, ret |-> r]

\* thread t is in the body of op, under the guard of op's mutex
InBody(t, op) == pc[t] = "held" /\ call[t] = op /\ Holds(t, MutexOf(op))

-----------------------------------------------------------------------------
(* OAuth state management (CSRF guard).                                     *)

Providers == {"slack", "gmail"}
Tokens == {"X", "Y"}

\* HashMap::insert / HashMap::remove / HashMap::get
MapInsert(m, k, v) == [x \in DOMAIN m \cup {k} |-> IF x = k THEN v ELSE m[x]]
MapRemove(m, k) == [x \in DOMAIN m \ {k} |-> m[x]]
MapGet(m, k) == IF k \in DOMAIN m THEN Some(m[k]) ELSE None

EmptyMap == [x \in {} |-> ""]

InsertIfAbsent(states, provider, oauth_state) ==
    IF provider \in DOMAIN states THEN states
    ELSE MapInsert(states, provider, oauth_state)

\* states.insert(provider, oauth_state)
StoreStates(states, provider, oauth_state) ==
    MapInsert(states, provider, oauth_state)

ValidateKeepsEntry(states, provider, oauth_state) ==
    IF IsSome(MapGet(states, provider)) /\ Unwrap(MapGet(states, provider)) = oauth_state
    THEN [states |-> states, val |-> TRUE]
    ELSE [states |-> states, val |-> FALSE]

ValidateBurnsOnMiss(states, provider, oauth_state) ==
    IF IsSome(MapGet(states, provider)) /\ Unwrap(MapGet(states, provider)) = oauth_state
    THEN [states |-> MapRemove(states, provider), val |-> TRUE]
    ELSE [states |-> MapRemove(states, provider), val |-> FALSE]

ValidateClearsAll(states, provider, oauth_state) ==
    IF IsSome(MapGet(states, provider)) /\ Unwrap(MapGet(states, provider)) = oauth_state
    THEN [states |-> EmptyMap, val |-> TRUE]
    ELSE [states |-> states, val |-> FALSE]

\* if let Some(stored) = states.get(&provider) { if stored == &oauth_state {
\*     states.remove(&provider); return Ok(true); } } Ok(false)
ValidateStates(states, provider, oauth_state) ==
    IF IsSome(MapGet(states, provider)) /\ Unwrap(MapGet(states, provider)) = oauth_state
    THEN [states |-> MapRemove(states, provider), val |-> TRUE]
    ELSE [states |-> states, val |-> FALSE]

\* The observer of the CSRF guard follows the calls and their results only.  A
\* token of a provider is "never" issued, "live" (issued, not consumed, not
\* replaced), "guessed" (live, and a validation with another token has failed on
\* the provider since), "consumed" (a validation returned true for it) or
\* "overwritten" (a later issue for the provider replaced it).
Live == {"live", "guessed"}

ObserveIssue(provider, oauth_state) ==
    csrf' = [csrf EXCEPT ![provider] =
                [x \in Tokens |-> IF x = oauth_state THEN "live"
                                  ELSE IF @[x] \in Live THEN "overwritten"
                                  ELSE @[x]]]

ObserveValidate(provider, oauth_state, val) ==
    csrf' = [csrf EXCEPT ![provider] =
                [x \in Tokens |-> IF x = oauth_state
                                  THEN (IF val THEN "consumed" ELSE @[x])
                                  ELSE IF ~val /\ @[x] \in Live THEN "guessed"
                                  ELSE @[x]]]

\* The observer of concurrent validations: the provider and token of the last
\* validation that returned true while others were in flight, the threads that
\* were in flight then and have not returned since, and whether one of them
\* has validated the same token since.  An issue for the provider ends it.
NoRace == [won |-> <<>>, rivals |-> {}, lost |-> 0]

ObserveReissue(provider) ==
    race' = IF race.won # <<>> /\ race.won[1] = provider THEN NoRace ELSE race

ObserveRace(t, provider, oauth_state, val) ==
    race' = IF val
            THEN LET rivals == {u \in Threads \ {t} : call[u] = "validate_oauth_state"}
                 IN  IF rivals = {} THEN NoRace
                     ELSE [won |-> << provider, oauth_state >>, rivals |-> rivals,
                           lost |-> 0]
            ELSE IF t \in race.rivals
                 THEN [won |-> race.won, rivals |-> race.rivals \ {t},
                       lost |-> IF race.won = << provider, oauth_state >> THEN 1
                                ELSE race.lost]
            ELSE race

Call_store_oauth_state(t) == Enter(t, "store_oauth_state", "lock")

store_oauth_state(t, provider, oauth_state) ==
    /\ InBody(t, "store_oauth_state")
    /\ oauth_states' = StoreStates(oauth_states, provider, oauth_state)
    /\ Return(t, provider, oauth_state, Ok(Unit))
    /\ ObserveIssue(provider, oauth_state)
    /\ ObserveReissue(provider)
    /\ UNCHANGED <<db, encryption_key, files, opened, keyring, incs, initialized, sealed>>
    /\ UNCHANGED <<cells, bound, passphrase, purged>>

Call_validate_oauth_state(t) == Enter(t, "validate_oauth_state", "lock")

validate_oauth_state_stale(t, provider, oauth_state) ==
    /\ InBody(t, "validate_oauth_state")
    /\ LET r == ValidateStates(oauth_states, provider, oauth_state)
           busy == \E u \in Threads \ {t} : call[u] = "validate_oauth_state"
       IN  /\ oauth_states' = IF busy THEN oauth_states ELSE r.states
           /\ Return(t, provider, oauth_state, Ok(r.val))
           /\ ObserveValidate(provider, oauth_state, r.val)
           /\ ObserveRace(t, provider, oauth_state, r.val)
    /\ UNCHANGED <<db, encryption_key, files, opened, keyring, incs, initialized, sealed>>
    /\ UNCHANGED <<cells, bound, passphrase, purged>>

\* validate_oauth_state under the guard: the comparison and the removal
validate_oauth_state(t, provider, oauth_state) ==
    /\ InBody(t, "validate_oauth_state")
    /\ LET r == ValidateStates(oauth_states, provider, oauth_state)
       IN  /\ oauth_states' = r.states
           /\ Return(t, provider, oauth_state, Ok(r.val))
           /\ ObserveValidate(provider, oauth_state, r.val)
           /\ ObserveRace(t, provider, oauth_state, r.val)
    /\ UNCHANGED <<db, encryption_key, files, opened, keyring, incs, initialized, sealed>>
    /\ UNCHANGED <<cells, bound, passphrase, purged>>

-----------------------------------------------------------------------------
(* Bytes, text and the BASE64 STANDARD engine.  A String is the sequence of *)
(* its UTF-8 bytes.                                                         *)

RECURSIVE Xor(_, _)
Xor(a, b) ==
    IF a = 0 THEN b
    ELSE IF b = 0 THEN a
    ELSE (((a % 2) + (b % 2)) % 2) + 2 * Xor(a \div 2, b \div 2)

Take(s, n) == SubSeq(s, 1, n)
Drop(s, n) == SubSeq(s, n + 1, Len(s))

\* the STANDARD alphabet A-Z a-z 0-9 + / as ASCII codes, and the padding '='
B64Char(i) ==
    IF i < 26 THEN 65 + i
    ELSE IF i < 52 THEN 97 + (i - 26)
    ELSE IF i < 62 THEN 48 + (i - 52)
    ELSE IF i = 62 THEN 43
    ELSE 47

B64Pad == 61

\* the 6-bit value of a character of the alphabet, -1 for any other byte
B64Index(c) ==
    IF c >= 65 /\ c <= 90 THEN c - 65
    ELSE IF c >= 97 /\ c <= 122 THEN c - 97 + 26
    ELSE IF c >= 48 /\ c <= 57 THEN c - 48 + 52
    ELSE IF c = 43 THEN 62
    ELSE IF c = 47 THEN 63
    ELSE -1

\* byte k of b, 0 past its end
ByteAt(b, k) == IF k <= Len(b) THEN b[k] ELSE 0

\* BASE64.encode(&bytes): four characters per group of three bytes, '=' padded
Base64Encode(b) ==
    [i \in 1..(4 * ((Len(b) + 2) \div 3)) |->
        LET g == 3 * ((i - 1) \div 4)
            r == (i - 1) % 4
        IN  IF r = 0 THEN B64Char(ByteAt(b, g + 1) \div 4)
            ELSE IF r = 1 THEN
                B64Char(((ByteAt(b, g + 1) % 4) * 16) + (ByteAt(b, g + 2) \div 16))
            ELSE IF r = 2 THEN
                IF g + 2 > Len(b) THEN B64Pad
                ELSE B64Char(((ByteAt(b, g + 2) % 16) * 4) + (ByteAt(b, g + 3) \div 64))
            ELSE IF g + 3 > Len(b) THEN B64Pad
            ELSE B64Char(ByteAt(b, g + 3) % 64)]

DecodeError == Err("Encryption", "Invalid base64")

\* the number of '=' that end the text (at most two count as padding)
PadCount(s) ==
    IF Len(s) > 0 /\ s[Len(s)] = B64Pad
    THEN (IF Len(s) > 1 /\ s[Len(s) - 1] = B64Pad THEN 2 ELSE 1)
    ELSE 0

\* the 6-bit value of character i of s, 0 for padding
SextetAt(s, i) == IF B64Index(s[i]) < 0 THEN 0 ELSE B64Index(s[i])

\* BASE64.decode(&text): the bytes, or a DecodeError when the text is not the
\* canonical padded encoding of any bytes (a length that is no multiple of four,
\* a byte outside the alphabet, padding out of place, non-zero trailing bits)
Base64Decode(s) ==
    LET n == Len(s)
        p == PadCount(s)
    IN  IF n % 4 # 0 THEN DecodeError
        ELSE IF \E i \in 1..(n - p) : B64Index(s[i]) < 0 THEN DecodeError
        ELSE IF p = 2 /\ B64Index(s[n - 2]) % 16 # 0 THEN DecodeError
        ELSE IF p = 1 /\ B64Index(s[n - 1]) % 4 # 0 THEN DecodeError
        ELSE Ok([k \in 1..((3 * (n \div 4)) - p) |->
                LET g == 4 * ((k - 1) \div 3)
                    r == (k - 1) % 3
                IN  IF r = 0 THEN (SextetAt(s, g + 1) * 4) + (SextetAt(s, g + 2) \div 16)
                    ELSE IF r = 1 THEN
                        ((SextetAt(s, g + 2) % 16) * 16) + (SextetAt(s, g + 3) \div 4)
                    ELSE ((SextetAt(s, g + 3) % 4) * 64) + SextetAt(s, g + 4)])

IsCont(b) == b >= 128 /\ b <= 191

\* String::from_utf8: whether the bytes are well-formed UTF-8
RECURSIVE IsUtf8(_)
IsUtf8(b) ==
    IF Len(b) = 0 THEN TRUE
    ELSE IF b[1] < 128 THEN IsUtf8(Drop(b, 1))
    ELSE IF b[1] >= 194 /\ b[1] <= 223 THEN
        Len(b) >= 2 /\ IsCont(b[2]) /\ IsUtf8(Drop(b, 2))
    ELSE IF b[1] >= 224 /\ b[1] <= 239 THEN
        /\ Len(b) >= 3 /\ IsCont(b[2]) /\ IsCont(b[3])
        /\ (b[1] = 224 => b[2] >= 160)
        /\ (b[1] = 237 => b[2] <= 159)
        /\ IsUtf8(Drop(b, 3))
    ELSE IF b[1] >= 240 /\ b[1] <= 244 THEN
        /\ Len(b) >= 4 /\ IsCont(b[2]) /\ IsCont(b[3]) /\ IsCont(b[4])
        /\ (b[1] = 240 => b[2] >= 144)
        /\ (b[1] = 244 => b[2] <= 143)
        /\ IsUtf8(Drop(b, 4))
    ELSE FALSE

-----------------------------------------------------------------------------
(* Database commands.  The store is one SQLite file holding two tables of  *)
(* one row each, counter(n) with an integer and vals(v) with a column of no *)
(* declared type; a statement is one of the SQL texts below.                *)

DefaultDbPath == "sidecar/sidecar.db"
AltDbPath == "alt/sidecar.db"
BadDbPath == "/no/such/dir/x.db"

\* the files that exist or can be created
DbPaths == {DefaultDbPath, AltDbPath}

SqlInc == "UPDATE counter SET n = n + 1"
SqlSel == "SELECT n FROM counter"
SqlPut == "UPDATE vals SET v = ?1"
SqlGet == "SELECT v FROM vals"
SqlDup == "SELECT n, n + 1 AS n FROM counter"
SqlBad == "SELEC n FORM counter"

NotInitialized == Err("InvalidState", "Database not initialized")

\* path.map(PathBuf::from).unwrap_or_else(|| data_local_dir/sidecar/sidecar.db)
DbPath(path) == IF IsSome(path) THEN Unwrap(path) ELSE DefaultDbPath

\* Connection::open(&db_path)?: the file is opened (created when its directory exists)
OpenConnection(path, id) ==
    IF path \in DOMAIN files
    THEN Ok([id |-> id, path |-> path])
    ELSE Err("Database", "unable to open database file")

RequireConnOrDefault(slot) ==
    IF IsSome(slot) THEN Ok(Unwrap(slot)) ELSE Ok([id |-> 0, path |-> DefaultDbPath])

\* db.as_ref().ok_or(SidecarError::InvalidState("Database not initialized"))?
RequireConn(slot) ==
    IF IsSome(slot) THEN Ok(Unwrap(slot)) ELSE NotInitialized

\* conn.prepare(&sql)?, and the parse that conn.execute(&sql, ..) starts with
Prepare(sql) ==
    IF sql \in {SqlInc, SqlSel, SqlPut, SqlGet, SqlDup}
    THEN Ok(sql) ELSE Err("Database", "syntax error")

\* the statements that return rows
IsQuery(sql) == sql \in {SqlSel, SqlGet, SqlDup}

\* stmt.column_count() and stmt.column_name(i) for i in 0..column_count
ColumnNames(sql) ==
    CASE sql = SqlSel -> << "n" >>
      [] sql = SqlGet -> << "v" >>
      [] sql = SqlDup -> << "n", "n" >>
      [] OTHER -> << >>

\* the number of ?N parameters of the statement
ParameterCount(sql) == IF sql = SqlPut THEN 1 ELSE 0

\* params_refs.as_slice() bound to the statement: one value per parameter
BindParameters(sql, params) ==
    IF Len(params) = ParameterCount(sql)
    THEN Ok(params) ELSE Err("Database", "Wrong number of parameters passed to query")

\* serde_json::Value.  A Number is one of serde_json's three forms: PosInt is
\* the u64 hi * 2^63 + lo, NegInt a negative i64, Float the f64 m * 2^e.
JNull == [kind |-> "Null"]
JBool(b) == [kind |-> "Bool", b |-> b]
JNumber(n) == [kind |-> "Number", n |-> n]
JString(s) == [kind |-> "String", s |-> s]
JArray(text) == [kind |-> "Array", text |-> text]

PosInt(hi, lo) == [n |-> "PosInt", hi |-> hi, lo |-> lo]
NegInt(v) == [n |-> "NegInt", v |-> v]
Float(f) == [n |-> "Float", f |-> f]
F64(m, e) == [m |-> m, e |-> e]

\* an integer of magnitude below 2^53 as f64, which is exact
F64Of(i) == F64(i, 0)

\* Number::as_i64: a PosInt above i64::MAX and a Float have none
as_i64(n) ==
    CASE n.n = "PosInt" -> IF n.hi = 0 THEN Some(n.lo) ELSE None
      [] n.n = "NegInt" -> Some(n.v)
      [] OTHER -> None

\* Number::as_f64: every Number has one; 2^63 + lo rounds to 2^63 for lo < 2^10
as_f64(n) ==
    CASE n.n = "PosInt" -> IF n.hi = 0 THEN Some(F64Of(n.lo)) ELSE Some(F64(1, 63))
      [] n.n = "NegInt" -> Some(F64Of(n.v))
      [] OTHER -> Some(n.f)

\* the value SQLite stores in a column (rusqlite::types::Value)
SqlNull == [type |-> "Null"]
SqlInteger(i) == [type |-> "Integer", i |-> i]
SqlReal(f) == [type |-> "Real", f |-> f]
SqlText(s) == [type |-> "Text", s |-> s]
SqlBlob(b) == [type |-> "Blob", b |-> b]

\* fn json_to_sql(value: &serde_json::Value) -> Box<dyn ToSql>
json_to_sql(value) ==
    CASE value.kind = "Null" -> SqlNull
      [] value.kind = "Bool" -> SqlInteger(IF value.b THEN 1 ELSE 0)
      [] value.kind = "Number" ->
            IF IsSome(as_i64(value.n)) THEN SqlInteger(Unwrap(as_i64(value.n)))
            ELSE IF IsSome(as_f64(value.n)) THEN SqlReal(Unwrap(as_f64(value.n)))
            ELSE SqlText(ToString(value.n))
      [] value.kind = "String" -> SqlText(value.s)
      [] OTHER -> SqlText(value.text)

\* row.get::<_, T>(idx) for the five T that row_value_to_json asks for:
\* rusqlite's FromSql of T takes a column of the storage classes below
GetString(row, idx) ==
    IF row[idx].type = "Text" THEN Ok(row[idx].s)
    ELSE Err("Database", "Invalid column type")
GetI64(row, idx) ==
    IF row[idx].type = "Integer" THEN Ok(row[idx].i)
    ELSE Err("Database", "Invalid column type")
GetF64(row, idx) ==
    CASE row[idx].type = "Real" -> Ok(row[idx].f)
      [] row[idx].type = "Integer" -> Ok(F64Of(row[idx].i))
      [] OTHER -> Err("Database", "Invalid column type")
GetBool(row, idx) ==
    IF row[idx].type = "Integer" THEN Ok(row[idx].i # 0)
    ELSE Err("Database", "Invalid column type")
GetBlob(row, idx) ==
    IF row[idx].type = "Blob" THEN Ok(row[idx].b)
    ELSE Err("Database", "Invalid column type")

\* serde_json::json!(v) of an i64: Number::from(i64)
NumberFromI64(i) == IF i < 0 THEN NegInt(i) ELSE PosInt(0, i)

row_value_to_json_float_first(row, idx) ==
    IF IsOk(GetString(row, idx)) THEN JString(GetString(row, idx).val)
    ELSE IF IsOk(GetF64(row, idx)) THEN JNumber(Float(GetF64(row, idx).val))
    ELSE IF IsOk(GetI64(row, idx)) THEN JNumber(NumberFromI64(GetI64(row, idx).val))
    ELSE IF IsOk(GetBool(row, idx)) THEN JBool(GetBool(row, idx).val)
    ELSE IF IsOk(GetBlob(row, idx)) THEN JString(Base64Encode(GetBlob(row, idx).val))
    ELSE JNull

\* fn row_value_to_json(row: &rusqlite::Row, idx: usize) -> serde_json::Value:
\* the first of String, i64, f64, bool, Vec<u8> that the column converts to
row_value_to_json(row, idx) ==
    IF IsOk(GetString(row, idx)) THEN JString(GetString(row, idx).val)
    ELSE IF IsOk(GetI64(row, idx)) THEN JNumber(NumberFromI64(GetI64(row, idx).val))
    ELSE IF IsOk(GetF64(row, idx)) THEN JNumber(Float(GetF64(row, idx).val))
    ELSE IF IsOk(GetBool(row, idx)) THEN JBool(GetBool(row, idx).val)
    ELSE IF IsOk(GetBlob(row, idx)) THEN JString(Base64Encode(GetBlob(row, idx).val))
    ELSE JNull

Call_db_init(t) ==
    /\ opened + Cardinality({u \in Threads : pc[u] = "open"}) < MaxOpen
    /\ Enter(t, "db_init", "open")

\* let db_path = ..; let conn = Connection::open(&db_path)?;
db_init_open(t, path) ==
    /\ pc[t] = "open"
    /\ LET r == OpenConnection(DbPath(path), opened + 1)
       IN  IF IsOk(r)
           THEN /\ opened' = opened + 1
                /\ loc' = [loc EXCEPT ![t] = [path |-> path, conn |-> r.val]]
                /\ pc' = [pc EXCEPT ![t] = "pragma"]
                /\ last' = NoLast
                /\ UNCHANGED <<mutex, call>>
           ELSE /\ Return(t, path, <<>>, r)
                /\ UNCHANGED opened
    /\ UNCHANGED <<db, encryption_key, oauth_states, files, keyring,
                   csrf, incs, initialized, sealed>>
    /\ UNCHANGED <<cells, bound, passphrase, purged, race>>

\* conn.execute_batch("PRAGMA journal_mode=WAL; PRAGMA foreign_keys=ON;")?;
\* the store may refuse (a locked or corrupt file): the new connection is dropped
db_init_pragma(t) ==
    /\ pc[t] = "pragma"
    /\ \/ /\ pc' = [pc EXCEPT ![t] = "lock"]
          /\ last' = NoLast
          /\ UNCHANGED <<mutex, call, loc>>
       \/ Return(t, loc[t].path, <<>>, Err("Database", "database is locked"))
    /\ UNCHANGED <<db, encryption_key, oauth_states, files, opened, keyring,
                   csrf, incs, initialized, sealed>>
    /\ UNCHANGED <<cells, bound, passphrase, purged, race>>

db_init_keeps_first(t) ==
    /\ InBody(t, "db_init")
    /\ db' = IF IsSome(db) THEN db ELSE Some(loc[t].conn)
    /\ initialized' = initialized \cup {"db"}
    /\ Return(t, loc[t].path, <<>>, Ok(Unit))
    /\ UNCHANGED <<encryption_key, oauth_states, files, opened, keyring,
                   csrf, incs, sealed>>
    /\ UNCHANGED <<cells, bound, passphrase, purged, race>>

\* let mut db = state.db.lock(); *db = Some(conn); Ok(())
db_init(t) ==
    /\ InBody(t, "db_init")
    /\ db' = Some(loc[t].conn)
    /\ initialized' = initialized \cup {"db"}
    /\ Return(t, loc[t].path, <<>>, Ok(Unit))
    /\ UNCHANGED <<encryption_key, oauth_states, files, opened, keyring,
                   csrf, incs, sealed>>
    /\ UNCHANGED <<cells, bound, passphrase, purged, race>>

Call_db_execute(t) == Enter(t, "db_execute", "lock")

\* db_execute under the guard, up to the point where the statement has read
\* the row it updates: the slot is checked, then the statement is parsed
db_execute(t, sql, params) ==
    /\ InBody(t, "db_execute")
    /\ LET c == RequireConn(db)
           params_boxed == [i \in DOMAIN params |-> json_to_sql(params[i])]
           s == Prepare(sql)
           b == BindParameters(sql, params_boxed)
       IN  IF IsErr(c) THEN Return(t, sql, params, c)
           ELSE IF IsErr(s) THEN Return(t, sql, params, s)
           ELSE IF IsErr(b) THEN Return(t, sql, params, b)
           ELSE IF IsQuery(s.val)
                THEN Return(t, sql, params, Err("Database", "Execute returned results"))
           ELSE /\ sql = SqlInc => files[c.val.path] < MaxCount
                /\ loc' = [loc EXCEPT ![t] = [sql |-> sql, params |-> params,
                                              conn |-> c.val, bind |-> b.val,
                                              n |-> files[c.val.path]]]
                /\ pc' = [pc EXCEPT ![t] = "write"]
                /\ last' = NoLast
                /\ UNCHANGED <<mutex, call>>
    /\ UNCHANGED <<db, encryption_key, oauth_states, files, opened, keyring,
                   csrf, incs, initialized, sealed>>
    /\ UNCHANGED <<cells, bound, passphrase, purged, race>>

\* the statement writes the row back; let affected = conn.execute(..)?; Ok(affected)
db_execute_write(t) ==
    /\ pc[t] = "write"
    /\ IF loc[t].sql = SqlInc
       THEN /\ files' = [files EXCEPT ![loc[t].conn.path] = loc[t].n + 1]
            /\ incs' = [incs EXCEPT ![loc[t].conn.path] = @ + 1]
            /\ UNCHANGED <<cells, bound>>
       ELSE /\ cells' = [cells EXCEPT ![loc[t].conn.path] = loc[t].bind[1]]
            /\ bound' = [bound EXCEPT ![loc[t].conn.path] = loc[t].params[1]]
            /\ UNCHANGED <<files, incs>>
    /\ Return(t, loc[t].sql, loc[t].params, Ok(1))
    /\ UNCHANGED <<db, encryption_key, oauth_states, opened, keyring,
                   csrf, initialized, sealed>>
    /\ UNCHANGED <<passphrase, purged, race>>

Call_db_query(t) == Enter(t, "db_query", "lock")

\* the row the statement reads, one SQLite value per result column
RowOf(sql, conn) ==
    CASE sql = SqlSel -> << SqlInteger(files[conn.path]) >>
      [] sql = SqlGet -> << cells[conn.path] >>
      [] sql = SqlDup -> << SqlInteger(files[conn.path]),
                            SqlInteger(files[conn.path] + 1) >>

RECURSIVE RowMapFirstWins(_, _, _)
RowMapFirstWins(column_names, row, column_count) ==
    IF column_count = 0 THEN EmptyMap
    ELSE LET map == RowMapFirstWins(column_names, row, column_count - 1)
         IN  IF column_names[column_count] \in DOMAIN map THEN map
             ELSE MapInsert(map, column_names[column_count],
                            row_value_to_json(row, column_count))

RECURSIVE RowMap(_, _, _)
\* for i in 0..column_count { map.insert(column_names[i].clone(), value) }
RowMap(column_names, row, column_count) ==
    IF column_count = 0 THEN EmptyMap
    ELSE MapInsert(RowMap(column_names, row, column_count - 1),
                   column_names[column_count], row_value_to_json(row, column_count))

\* stmt.query_map(.., |row| ..).collect(): each row a map column name -> JSON value
QueryRows(sql, conn) ==
    << RowMap(ColumnNames(sql), RowOf(sql, conn), Len(ColumnNames(sql))) >>

db_query_drops_conn(t, sql, params) ==
    /\ InBody(t, "db_query")
    /\ IsQuery(sql) \/ sql = SqlBad
    /\ LET c == RequireConn(db)
           params_boxed == [i \in DOMAIN params |-> json_to_sql(params[i])]
           s == Prepare(sql)
           b == BindParameters(sql, params_boxed)
       IN  IF IsErr(c) THEN Return(t, sql, params, c) /\ UNCHANGED db
           ELSE IF IsErr(s) THEN Return(t, sql, params, s) /\ db' = None
           ELSE IF IsErr(b) THEN Return(t, sql, params, b) /\ UNCHANGED db
           ELSE Return(t, sql, params, Ok(QueryRows(sql, c.val))) /\ UNCHANGED db
    /\ UNCHANGED <<encryption_key, oauth_states, files, opened, keyring,
                   csrf, incs, initialized, sealed>>
    /\ UNCHANGED <<cells, bound, passphrase, purged, race>>

\* db_query under the guard; the queries of the model are the statements
\* that return rows and the malformed one
db_query(t, sql, params) ==
    /\ InBody(t, "db_query")
    /\ IsQuery(sql) \/ sql = SqlBad
    /\ LET c == RequireConn(db)
           params_boxed == [i \in DOMAIN params |-> json_to_sql(params[i])]
           s == Prepare(sql)
           b == BindParameters(sql, params_boxed)
       IN  IF IsErr(c) THEN Return(t, sql, params, c)
           ELSE IF IsErr(s) THEN Return(t, sql, params, s)
           ELSE IF IsErr(b) THEN Return(t, sql, params, b)
           ELSE Return(t, sql, params, Ok(QueryRows(sql, c.val)))
    /\ UNCHANGED <<db, encryption_key, oauth_states, files, opened, keyring,
                   csrf, incs, initialized, sealed>>
    /\ UNCHANGED <<cells, bound, passphrase, purged, race>>

-----------------------------------------------------------------------------
(* The primitives of the sha2 and aes-gcm crates.  SHA-256 and AES-256-GCM  *)
(* are replaced by functions of the same shape: a deterministic 32-byte     *)
(* digest, a keystream cipher whose output is the plaintext's length plus a *)
(* 16-byte tag over key, nonce and ciphertext.                              *)

KeyLen == 32
NonceLen == 12
TagLen == 16

\* the sum of s[j] * (2 * (j + k) + 1) over the first n bytes of s
RECURSIVE WeighTo(_, _, _)
WeighTo(s, k, n) ==
    IF n = 0 THEN 0
    ELSE (s[n] * ((2 * (n + k)) + 1)) + WeighTo(s, k, n - 1)

Weigh(s, k) == WeighTo(s, k, Len(s))

\* Sha256::new(); update(..); finalize()
Sha256(input) ==
    LET h == Weigh(input, 0) + Len(input)
    IN  [i \in 1..KeyLen |-> ((h * ((2 * i) + 1)) + (7 * i * i)) % 256]

\* b"sidecar-encryption-salt-v1"
Salt == << 115, 105, 100, 101, 99, 97, 114, 45, 101, 110, 99, 114, 121, 112,
           116, 105, 111, 110, 45, 115, 97, 108, 116, 45, 118, 49 >>

DeriveKeyRotating(password) ==
    Sha256(IF IsSome(encryption_key) THEN password \o Salt \o << 1 >> ELSE password \o Salt)

\* hasher.update(password.as_bytes()); hasher.update(salt); key.copy_from_slice(&result)
DeriveKey(password) == Sha256(password \o Salt)

KeyStream(key, nonce, i) ==
    (key[((i - 1) % KeyLen) + 1] + 3 * nonce[((i - 1) % NonceLen) + 1] + 17 * i) % 256

GcmTag(key, nonce, ct) ==
    LET h == Weigh(nonce, 0) + Weigh(ct, NonceLen) + Len(ct)
    IN  [j \in 1..TagLen |-> (key[j] + (3 * key[j + TagLen]) + (h * ((2 * j) + 1))) % 256]

\* Aes256Gcm::new_from_slice(key): InvalidLength unless the key has 32 bytes
NewCipher(key) ==
    IF Len(key) = KeyLen THEN Ok(key) ELSE Err("Encryption", "Invalid Length")

\* cipher.encrypt(nonce, plaintext): ciphertext followed by the tag
Seal(key, nonce, pt) ==
    LET ct == [i \in 1..Len(pt) |-> Xor(pt[i], KeyStream(key, nonce, i))]
    IN  ct \o GcmTag(key, nonce, ct)

AeadError == Err("Encryption", "aead::Error")

OpenUnverified(key, nonce, body) ==
    IF Len(body) < TagLen THEN AeadError
    ELSE Ok([i \in 1..(Len(body) - TagLen) |-> Xor(body[i], KeyStream(key, nonce, i))])

\* cipher.decrypt(nonce, body): the plaintext when the tag verifies, else aead::Error
Open(key, nonce, body) ==
    IF Len(body) < TagLen THEN AeadError
    ELSE LET ct == Take(body, Len(body) - TagLen)
             tag == Drop(body, Len(body) - TagLen)
         IN  IF GcmTag(key, nonce, ct) # tag THEN AeadError
             ELSE Ok([i \in 1..Len(ct) |-> Xor(ct[i], KeyStream(key, nonce, i))])

-----------------------------------------------------------------------------
(* Encryption commands.                                                     *)

EncNotInitialized == Err("Encryption", "Encryption not initialized")

\* key.as_ref().ok_or(SidecarError::Encryption("Encryption not initialized"))?
RequireKey(slot) ==
    IF IsSome(slot) THEN Ok(Unwrap(slot)) ELSE EncNotInitialized

EncryptWithoutNonce(slot, nonce, plaintext) ==
    LET k == RequireKey(slot)
    IN  IF IsErr(k) THEN k
        ELSE Ok(Base64Encode(Seal(k.val, nonce, plaintext)))

\* encrypt_data under the guard, with the nonce thread_rng() filled in
EncryptWith(slot, nonce, plaintext) ==
    LET k == RequireKey(slot)
    IN  IF IsErr(k) THEN k
        ELSE IF IsErr(NewCipher(k.val)) THEN NewCipher(k.val)
        ELSE Ok(Base64Encode(nonce \o Seal(k.val, nonce, plaintext)))

DecodeFirst(slot, ciphertext) ==
    LET d == Base64Decode(ciphertext)
    IN  IF IsErr(d) THEN d ELSE RequireKey(slot)

\* decrypt_data up to the length check: the error it returns, or the decoded bytes
DecryptPrefix(slot, ciphertext) ==
    LET k == RequireKey(slot)
        d == Base64Decode(ciphertext)
    IN  IF IsErr(k) THEN k
        ELSE IF IsErr(NewCipher(k.val)) THEN NewCipher(k.val)
        ELSE d

InvalidCiphertext == Err("Encryption", "Invalid ciphertext")

SplitUnchecked(combined) ==
    Ok([nonce |-> [i \in 1..NonceLen |-> IF i <= Len(combined) THEN combined[i] ELSE 0],
        body |-> Drop(combined, NonceLen)])

\* if combined.len() < 12 { return Err(..) }; combined.split_at(12)
SplitEnvelope(combined) ==
    IF Len(combined) < NonceLen THEN InvalidCiphertext
    ELSE Ok([nonce |-> Take(combined, NonceLen), body |-> Drop(combined, NonceLen)])

\* String::from_utf8(plaintext).map_err(..)
FromUtf8(bytes) ==
    IF IsUtf8(bytes) THEN Ok(bytes) ELSE Err("Encryption", "invalid utf-8 sequence")

\* decrypt_data under the guard
DecryptWith(slot, ciphertext) ==
    LET d == DecryptPrefix(slot, ciphertext)
    IN  IF IsErr(d) THEN d
        ELSE LET s == SplitEnvelope(d.val)
             IN  IF IsErr(s) THEN s
                 ELSE LET p == Open(RequireKey(slot).val, s.val.nonce, s.val.body)
                      IN  IF IsErr(p) THEN p ELSE FromUtf8(p.val)

\* the nonce and the envelope of what encrypt_data returned last
ObserveSeal(r, nonce, plaintext) ==
    sealed' = IF IsOk(r)
              THEN Some([env |-> r.val, key |-> Unwrap(encryption_key),
                         nonce |-> nonce, plaintext |-> plaintext])
              ELSE sealed

Call_init_encryption(t) == Enter(t, "init_encryption", "lock")

\* let mut encryption_key = state.encryption_key.lock(); *encryption_key = Some(key)
init_encryption(t, password) ==
    /\ InBody(t, "init_encryption")
    /\ encryption_key' = Some(DeriveKey(password))
    /\ initialized' = initialized \cup {"encryption_key"}
    /\ passphrase' = Some(password)
    /\ Return(t, password, <<>>, Ok(Unit))
    /\ UNCHANGED <<db, oauth_states, files, opened, keyring, csrf, incs, sealed>>
    /\ UNCHANGED <<cells, bound, purged, race>>

Call_encrypt_data(t) == Enter(t, "encrypt_data", "lock")

\* the nonce is whatever thread_rng() yields: any of the nonces of the model
encrypt_data(t, plaintext, nonce) ==
    /\ InBody(t, "encrypt_data")
    /\ Return(t, plaintext, nonce, EncryptWith(encryption_key, nonce, plaintext))
    /\ ObserveSeal(EncryptWith(encryption_key, nonce, plaintext), nonce, plaintext)
    /\ UNCHANGED <<db, encryption_key, oauth_states, files, opened, keyring,
                   csrf, incs, initialized>>
    /\ UNCHANGED <<cells, bound, passphrase, purged, race>>

Call_decrypt_data(t) == Enter(t, "decrypt_data", "lock")

decrypt_data_wipes_key(t, ciphertext) ==
    /\ InBody(t, "decrypt_data")
    /\ Return(t, ciphertext, <<>>, DecryptWith(encryption_key, ciphertext))
    /\ encryption_key' = IF IsErr(DecryptWith(encryption_key, ciphertext))
                         THEN None ELSE encryption_key
    /\ UNCHANGED <<db, oauth_states, files, opened, keyring,
                   csrf, incs, initialized, sealed>>
    /\ UNCHANGED <<cells, bound, passphrase, purged, race>>

\* decrypt_data under the guard
decrypt_data(t, ciphertext) ==
    /\ InBody(t, "decrypt_data")
    /\ Return(t, ciphertext, <<>>, DecryptWith(encryption_key, ciphertext))
    /\ UNCHANGED <<db, encryption_key, oauth_states, files, opened, keyring,
                   csrf, incs, initialized, sealed>>
    /\ UNCHANGED <<cells, bound, passphrase, purged, race>>

-----------------------------------------------------------------------------
(* The inputs of the encryption commands.                                   *)

\* "pw", "hunter2"
Passwords == { << 112, 119 >>, << 104, 117, 110, 116, 101, 114, 50 >> }

\* "", "hé"
Plaintexts == { <<>>, << 104, 195, 169 >> }

NonceOf(s) == [i \in 1..NonceLen |-> ((s * 37) + (i * 11)) % 256]
Nonces == { NonceOf(s) : s \in 1..NNonces }

\* the bytes with bit 0 of byte k flipped
FlipByte(bytes, k) == [bytes EXCEPT ![k] = Xor(@, 1)]

\* an envelope altered in its decoded form: one byte flipped, or the last byte cut
TamperKinds == {"nonce_first", "nonce_last", "body_first", "tag_last", "cut"}

TamperBytes(b, kind) ==
    CASE kind = "nonce_first" -> FlipByte(b, 1)
      [] kind = "nonce_last" -> FlipByte(b, NonceLen)
      [] kind = "body_first" -> FlipByte(b, NonceLen + 1)
      [] kind = "tag_last" -> FlipByte(b, Len(b))
      [] kind = "cut" -> Take(b, Len(b) - 1)

Tamper(envelope, kind) == Base64Encode(TamperBytes(Base64Decode(envelope).val, kind))

ShortLens == {0, 1, 11, 12, 27}

\* "****", "aGk", "aGl=" : not the canonical encoding of any bytes
Malformed == { << 42, 42, 42, 42 >>, << 97, 71, 107 >>, << 97, 71, 108, 61 >> }

\* an envelope sealed under the key in force whose plaintext is not UTF-8
NotText(slot) == EncryptWith(slot, NonceOf(1), << 255 >>)

\* what a caller may hand to decrypt_data: the envelope encrypt_data returned
\* last, that envelope altered or cut short, text that is no envelope at all
Ciphertexts ==
    Malformed
    \cup { Base64Encode(Take(NonceOf(1) \o NonceOf(2) \o NonceOf(1), n)) : n \in ShortLens }
    \cup (IF IsSome(encryption_key) THEN { NotText(encryption_key).val } ELSE {})
    \cup (IF IsSome(sealed)
          THEN {Unwrap(sealed).env}
               \cup { Tamper(Unwrap(sealed).env, k) : k \in TamperKinds }
          ELSE {})

\* the same, one of each kind
MainCiphertexts ==
    { << 97, 71, 107 >>, Base64Encode(Take(NonceOf(1), 11)) }
    \cup (IF IsSome(sealed)
          THEN {Unwrap(sealed).env, Tamper(Unwrap(sealed).env, "tag_last")}
          ELSE {})

-----------------------------------------------------------------------------
(* Credential storage in the system keychain.  The keychain is outside the  *)
(* process: any request may fail for a reason of the platform.              *)

Secrets == {"s3cret"}

PlatformFailure == Err("Keyring", "Platform secure storage failure")

\* entry.get_password(): the secret, or NoEntry
GetPassword(kr, provider) ==
    IF provider \in DOMAIN kr THEN Ok(kr[provider]) ELSE Err("NoEntry", "No matching entry")

Call_store_credentials(t) == Enter(t, "store_credentials", "keyring")

\* Entry::new(..)?; entry.set_password(&credentials)?; Ok(())
store_credentials(t, provider, credentials) ==
    /\ pc[t] = "keyring" /\ call[t] = "store_credentials"
    /\ \/ /\ keyring' = MapInsert(keyring, provider, credentials)
          /\ purged' = [purged EXCEPT ![provider] = 0]
          /\ Return(t, provider, credentials, Ok(Unit))
       \/ /\ UNCHANGED <<keyring, purged>>
          /\ Return(t, provider, credentials, PlatformFailure)
    /\ UNCHANGED <<db, encryption_key, oauth_states, files, opened,
                   csrf, incs, initialized, sealed>>
    /\ UNCHANGED <<cells, bound, passphrase, race>>

Call_get_credentials(t) == Enter(t, "get_credentials", "keyring")

\* match entry.get_password() { Ok(p) => Ok(Some(p)), Err(NoEntry) => Ok(None),
\*                              Err(e) => Err(Keyring(e)) }
GetCredentialsResult(r) ==
    IF IsOk(r) THEN Ok(Some(r.val))
    ELSE IF r.kind = "NoEntry" THEN Ok(None)
    ELSE Err("Keyring", r.msg)

get_credentials(t, provider) ==
    /\ pc[t] = "keyring" /\ call[t] = "get_credentials"
    /\ \/ Return(t, provider, <<>>, GetCredentialsResult(GetPassword(keyring, provider)))
       \/ Return(t, provider, <<>>, GetCredentialsResult(PlatformFailure))
    /\ UNCHANGED <<db, encryption_key, oauth_states, files, opened, keyring,
                   csrf, incs, initialized, sealed>>
    /\ UNCHANGED <<cells, bound, passphrase, purged, race>>

Call_delete_credentials(t) == Enter(t, "delete_credentials", "keyring")

DeleteCredentialsStrict(r) ==
    IF IsOk(r) THEN Ok(Unit) ELSE Err("Keyring", r.msg)

\* match entry.delete_credential() { Ok(_) => Ok(()), Err(NoEntry) => Ok(()),
\*                                  Err(e) => Err(Keyring(e)) }
DeleteCredentialsResult(r) ==
    IF IsOk(r) THEN Ok(Unit)
    ELSE IF r.kind = "NoEntry" THEN Ok(Unit)
    ELSE Err("Keyring", r.msg)

\* the deletions of a provider's entry that returned Ok since its last store
\* (counted up to two)
ObserveDelete(provider, r) ==
    purged' = IF IsOk(r)
              THEN [purged EXCEPT ![provider] = IF @ < 2 THEN @ + 1 ELSE @]
              ELSE purged

delete_credentials(t, provider) ==
    /\ pc[t] = "keyring" /\ call[t] = "delete_credentials"
    /\ \/ /\ keyring' = MapRemove(keyring, provider)
          /\ ObserveDelete(provider, DeleteCredentialsResult(GetPassword(keyring, provider)))
          /\ Return(t, provider, <<>>, DeleteCredentialsResult(GetPassword(keyring, provider)))
       \/ /\ UNCHANGED <<keyring, purged>>
          /\ Return(t, provider, <<>>, DeleteCredentialsResult(PlatformFailure))
    /\ UNCHANGED <<db, encryption_key, oauth_states, files, opened,
                   csrf, incs, initialized, sealed>>
    /\ UNCHANGED <<cells, bound, passphrase, race>>

-----------------------------------------------------------------------------
(* The process after AppState::new(), before any command.                   *)

Init ==
    /\ db = None
    /\ encryption_key = None
    /\ oauth_states = EmptyMap
    /\ mutex = [m \in Mutexes |-> 0]
    /\ files = [p \in DbPaths |-> 0]
    /\ opened = 0
    /\ keyring = EmptyMap
    /\ pc = [t \in Threads |-> "idle"]
    /\ call = [t \in Threads |-> "none"]
    /\ loc = [t \in Threads |-> NoLocal]
    /\ last = NoLast
    /\ csrf = [p \in Providers |-> [x \in Tokens |-> "never"]]
    /\ incs = [p \in DbPaths |-> 0]
    /\ initialized = {}
    /\ sealed = None
    /\ cells = [p \in DbPaths |-> SqlNull]
    /\ bound = [p \in DbPaths |-> JNull]
    /\ passphrase = None
    /\ purged = [p \in Providers |-> 0]
    /\ race = NoRace

\* the CSRF guard, called from every thread
NextCsrf ==
    \E t \in Threads :
        \/ Call_store_oauth_state(t)
        \/ \E p \in Providers, x \in Tokens : store_oauth_state(t, p, x)
        \/ Call_validate_oauth_state(t)
        \/ \E p \in Providers, x \in Tokens : validate_oauth_state(t, p, x)
        \/ Lock(t)

SpecCsrf == Init /\ [][NextCsrf]_vars

\* the database commands, called from every thread
NextDb ==
    \E t \in Threads :
        \/ Call_db_init(t)
        \/ \E path \in {None, Some(BadDbPath)} : db_init_open(t, path)
        \/ db_init_pragma(t)
        \/ db_init(t)
        \/ Call_db_execute(t)
        \/ \E sql \in {SqlInc, SqlSel, SqlBad} : db_execute(t, sql, <<>>)
        \/ db_execute_write(t)
        \/ Call_db_query(t)
        \/ \E sql \in {SqlSel, SqlBad} : db_query(t, sql, <<>>)
        \/ Lock(t)

SpecDb == Init /\ [][NextDb]_vars

\* Re-initialization: db_init on either of two files, and the counter
\* statements, called from every thread.
NextReinit ==
    \E t \in Threads :
        \/ Call_db_init(t)
        \/ \E path \in {None, Some(AltDbPath)} : db_init_open(t, path)
        \/ db_init_pragma(t)
        \/ db_init(t)
        \/ Call_db_execute(t)
        \/ db_execute(t, SqlInc, <<>>)
        \/ db_execute_write(t)
        \/ Call_db_query(t)
        \/ db_query(t, SqlSel, <<>>)
        \/ Lock(t)

SpecReinit == Init /\ [][NextReinit]_vars

\* Queries from every thread, one of them with two result columns of one
\* name, while the counter they read is updated.
NextQuery ==
    \E t \in Threads :
        \/ Call_db_init(t)
        \/ db_init_open(t, None)
        \/ db_init_pragma(t)
        \/ db_init(t)
        \/ Call_db_execute(t)
        \/ db_execute(t, SqlInc, <<>>)
        \/ db_execute_write(t)
        \/ Call_db_query(t)
        \/ \E sql \in {SqlSel, SqlDup} : db_query(t, sql, <<>>)
        \/ Lock(t)

SpecQuery == Init /\ [][NextQuery]_vars

\* the encryption commands, called from every thread
NextEnc ==
    \E t \in Threads :
        \/ Call_init_encryption(t)
        \/ \E p \in Passwords : init_encryption(t, p)
        \/ Call_encrypt_data(t)
        \/ \E x \in Plaintexts, n \in Nonces : encrypt_data(t, x, n)
        \/ Call_decrypt_data(t)
        \/ InBody(t, "decrypt_data") /\ \E c \in Ciphertexts : decrypt_data(t, c)
        \/ Lock(t)

SpecEnc == Init /\ [][NextEnc]_vars

\* the credential commands, called from every thread
NextVault ==
    \E t \in Threads :
        \/ Call_store_credentials(t)
        \/ \E p \in Providers, c \in Secrets : store_credentials(t, p, c)
        \/ Call_get_credentials(t)
        \/ \E p \in Providers : get_credentials(t, p)
        \/ Call_delete_credentials(t)
        \/ \E p \in Providers : delete_credentials(t, p)

SpecVault == Init /\ [][NextVault]_vars

\* The values bound into column v: null, both booleans, integers of either
\* sign, a u64 above i64::MAX, floats with and without a fraction, strings
\* (one that spells a number) and an array.
JsonValues ==
    { JNull, JBool(TRUE), JBool(FALSE),
      JNumber(PosInt(0, 0)), JNumber(PosInt(0, 1)), JNumber(NegInt(-7)),
      JNumber(PosInt(1, 0)),
      JNumber(Float(F64(3, -1))), JNumber(Float(F64(1, 0))),
      JString(<< >>), JString(<< 52, 50 >>),
      JArray(<< 91, 49, 93 >>) }

\* The values of one column: db_init, then writes of column v with every value
\* above (and with no value at all) and reads of it, from every thread.
NextValue ==
    \E t \in Threads :
        \/ Call_db_init(t)
        \/ db_init_open(t, None)
        \/ db_init_pragma(t)
        \/ db_init(t)
        \/ Call_db_execute(t)
        \/ \E v \in JsonValues : db_execute(t, SqlPut, << v >>)
        \/ db_execute(t, SqlPut, << >>)
        \/ db_execute_write(t)
        \/ Call_db_query(t)
        \/ db_query(t, SqlGet, << >>)
        \/ Lock(t)

SpecValue == Init /\ [][NextValue]_vars

\* commands of each of the three mutexes (one that locks after steps of its own,
\* one that returns Ok and one that returns an error), called from every thread
NextLocks ==
    \E t \in Threads :
        \/ Call_store_oauth_state(t)
        \/ store_oauth_state(t, "slack", "X")
        \/ Call_db_init(t)
        \/ db_init_open(t, None)
        \/ db_init_pragma(t)
        \/ db_init(t)
        \/ Call_db_execute(t)
        \/ \E sql \in {SqlInc, SqlBad} : db_execute(t, sql, <<>>)
        \/ db_execute_write(t)
        \/ Call_init_encryption(t)
        \/ init_encryption(t, << 112, 119 >>)
        \/ Call_decrypt_data(t)
        \/ decrypt_data(t, << 97, 71, 107 >>)
        \/ Lock(t)

SpecLocks == Init /\ [][NextLocks]_vars

\* no command is running
Quiet == \A u \in Threads : pc[u] = "idle"

\* the whole program: every command, on one input of every kind its code tells
\* apart, called from any thread when no other command is running
Next ==
    \E t \in Threads :
        \/ Quiet /\ Call_store_oauth_state(t)
        \/ \E p \in Providers : store_oauth_state(t, p, "X")
        \/ Quiet /\ Call_validate_oauth_state(t)
        \/ \E p \in Providers : validate_oauth_state(t, p, "X")
        \/ Quiet /\ Call_db_init(t)
        \/ \E path \in {None, Some(BadDbPath)} : db_init_open(t, path)
        \/ db_init_pragma(t)
        \/ db_init(t)
        \/ Quiet /\ Call_db_execute(t)
        \/ \E sql \in {SqlInc, SqlBad} : db_execute(t, sql, <<>>)
        \/ db_execute_write(t)
        \/ Quiet /\ Call_db_query(t)
        \/ \E sql \in {SqlSel, SqlBad} : db_query(t, sql, <<>>)
        \/ Quiet /\ Call_init_encryption(t)
        \/ init_encryption(t, << 112, 119 >>)
        \/ Quiet /\ Call_encrypt_data(t)
        \/ encrypt_data(t, << 104, 195, 169 >>, NonceOf(1))
        \/ Quiet /\ Call_decrypt_data(t)
        \/ InBody(t, "decrypt_data") /\ \E c \in MainCiphertexts : decrypt_data(t, c)
        \/ Quiet /\ Call_store_credentials(t)
        \/ store_credentials(t, "slack", "s3cret")
        \/ Quiet /\ Call_get_credentials(t)
        \/ get_credentials(t, "slack")
        \/ Quiet /\ Call_delete_credentials(t)
        \/ delete_credentials(t, "slack")
        \/ Lock(t)

Spec == Init /\ [][Next]_vars

-----------------------------------------------------------------------------
(* Properties.  A step in which thread t leaves the body of op by returning *)
(* is seen from both sides: the unprimed variables are the state the        *)
(* command ran on, last' holds its arguments and its result.                *)

Returns(t, op) == InBody(t, op) /\ pc'[t] = "idle"

Entry(states, provider) == MapGet(states, provider)

\* C1: CSRF single-use.  A validate_oauth_state(P, X) returns true exactly when
\* X is the token issued last for P and no validation has returned true for it
\* since; the call that returns true removes the entry of P, so that every
\* later validation of the consumed token returns false until it is issued again.
C1_SingleUse ==
    [][\A t \in Threads :
          Returns(t, "validate_oauth_state") =>
              /\ (last'.ret = Ok(TRUE)) <=> (csrf[last'.a1][last'.a2] \in Live)
              /\ (last'.ret = Ok(FALSE)) <=> (csrf[last'.a1][last'.a2] \notin Live)
              /\ last'.ret = Ok(TRUE) => Entry(oauth_states', last'.a1) = None
              /\ csrf[last'.a1][last'.a2] = "consumed" => last'.ret = Ok(FALSE)]_vars

\* a second validation of a consumed token has returned false
C1_Witness ==
    /\ last.op = "validate_oauth_state"
    /\ last.ret = Ok(FALSE)
    /\ csrf[last.a1][last.a2] = "consumed"
    /\ Entry(oauth_states, last.a1) = None

\* C2: a wrong guess does not burn the token.  A validate_oauth_state(P, C)
\* where C is not the token stored for P, or P has no entry, returns false and
\* leaves the whole map as it was; a token that survived failed validations is
\* still stored and its validation still returns true.
C2_WrongGuessKeepsToken ==
    [][\A t \in Threads :
          Returns(t, "validate_oauth_state") =>
              /\ Entry(oauth_states, last'.a1) # Some(last'.a2) =>
                     (last'.ret = Ok(FALSE) /\ oauth_states' = oauth_states)
              /\ last'.ret = Ok(FALSE) => oauth_states' = oauth_states
              /\ csrf[last'.a1][last'.a2] = "guessed" => last'.ret = Ok(TRUE)
              /\ \A p \in Providers, x \in Tokens :
                     csrf'[p][x] = "guessed" => Entry(oauth_states', p) = Some(x)]_vars

\* a validation with another token has failed, and the token issued is still stored
C2_Witness ==
    /\ last.op = "validate_oauth_state"
    /\ last.ret = Ok(FALSE)
    /\ Entry(oauth_states, last.a1) # None
    /\ Unwrap(Entry(oauth_states, last.a1)) # last.a2
    /\ csrf[last.a1][Unwrap(Entry(oauth_states, last.a1))] = "guessed"

\* C3: re-issuance overwrites.  The map holds for each provider at most one
\* token, the one issued last and not consumed; store_oauth_state(P, Y) leaves Y
\* as the entry of P and touches no other provider; the validation of a token
\* that a later issue replaced returns false, that of the stored one true.
C3_ReissueOverwrites ==
    [][/\ \A p \in Providers, x \in Tokens :
              (csrf'[p][x] \in Live) <=> (Entry(oauth_states', p) = Some(x))
       /\ \A t \in Threads :
              Returns(t, "store_oauth_state") =>
                  /\ Entry(oauth_states', last'.a1) = Some(last'.a2)
                  /\ \A q \in Providers \ {last'.a1} :
                         Entry(oauth_states', q) = Entry(oauth_states, q)
       /\ \A t \in Threads :
              Returns(t, "validate_oauth_state") =>
                  /\ csrf[last'.a1][last'.a2] = "overwritten" => last'.ret = Ok(FALSE)
                  /\ Entry(oauth_states, last'.a1) = Some(last'.a2) =>
                         last'.ret = Ok(TRUE)]_vars

\* the validation of a replaced token has returned false, the new one is stored
C3_Witness ==
    /\ last.op = "validate_oauth_state"
    /\ last.ret = Ok(FALSE)
    /\ csrf[last.a1][last.a2] = "overwritten"
    /\ Entry(oauth_states, last.a1) # None
    /\ csrf[last.a1][Unwrap(Entry(oauth_states, last.a1))] \in Live

\* C4: a CSRF entry lives until validated or overwritten.  In every step of
\* every command, the entry of a provider P changes only if the step is a
\* store_oauth_state on P returning, or a validate_oauth_state on P returning
\* true; calls on another provider and the database, encryption and vault
\* commands, failing or not, leave it as it was.
C4_EntryLifetime ==
    [][\A p \in Providers :
          Entry(oauth_states', p) # Entry(oauth_states, p) =>
              \E t \in Threads :
                  \/ Returns(t, "store_oauth_state") /\ last'.a1 = p
                  \/ /\ Returns(t, "validate_oauth_state")
                     /\ last'.a1 = p
                     /\ last'.ret = Ok(TRUE)]_vars

\* a validation has consumed the token of one provider, that of another is stored
C4_Witness ==
    /\ last.op = "validate_oauth_state"
    /\ last.ret = Ok(TRUE)
    /\ \E q \in Providers \ {last.a1} : Entry(oauth_states, q) # None

\* C5: no lost updates.  Whatever the interleaving of the db_execute calls that
\* increment the counter row, the counter is its initial value (0) plus the
\* number of increments that have returned Ok.
C5_NoLostUpdates ==
    \A p \in DOMAIN files : files[p] = incs[p]

\* an increment is being written while another db_execute waits for the lock,
\* after an earlier increment has returned
C5_Witness ==
    \E t \in Threads, u \in Threads :
        /\ t # u
        /\ pc[t] = "write"
        /\ call[u] = "db_execute" /\ pc[u] = "lock"
        /\ incs[DefaultDbPath] >= 1

\* C6: initialize-before-use for the store.  As long as no db_init has returned
\* Ok, no step of a db_execute or db_query call changes the shared state or
\* starts a statement, and the body of the call returns the InvalidState error
\* "Database not initialized".
C6_DbInitBeforeUse ==
    [][\A t \in Threads :
          (/\ call[t] \in {"db_execute", "db_query"}
           /\ "db" \notin initialized
           /\ pc'[t] # pc[t]) =>
              /\ shared' = shared
              /\ pc'[t] # "write"
              /\ pc[t] = "held" => (pc'[t] = "idle" /\ last'.ret = NotInitialized)]_vars

\* a database command has returned the error after a db_init attempt that failed
C6_Witness ==
    /\ last.op \in {"db_execute", "db_query"}
    /\ last.ret = NotInitialized
    /\ "db" \notin initialized
    /\ opened >= 1

\* C7: initialize-before-use for encryption.  As long as no init_encryption has
\* returned, encrypt_data and decrypt_data return the Encryption error
\* "Encryption not initialized" whatever their input is (text that is not
\* base64 and envelopes shorter than a nonce included), and change nothing.
C7_EncInitBeforeUse ==
    [][\A t \in Threads : \A op \in {"encrypt_data", "decrypt_data"} :
          (Returns(t, op) /\ "encryption_key" \notin initialized) =>
              /\ last'.ret = EncNotInitialized
              /\ shared' = shared
              /\ sealed' = sealed]_vars

\* decrypt_data has returned the error for a text that is not base64 either
C7_Witness ==
    /\ last.op = "decrypt_data"
    /\ last.ret = EncNotInitialized
    /\ "encryption_key" \notin initialized
    /\ IsErr(Base64Decode(last.a1))

\* C8: encryption round-trip.  With a key installed, encrypt_data returns an
\* envelope for every plaintext and every nonce, and decrypt_data of that
\* envelope under the same key returns exactly the plaintext.
C8_RoundTrip ==
    [][\A t \in Threads :
          /\ (Returns(t, "encrypt_data") /\ IsSome(encryption_key)) =>
                 /\ IsOk(last'.ret)
                 /\ DecryptWith(encryption_key, last'.ret.val) = Ok(last'.a1)
          /\ (/\ Returns(t, "decrypt_data")
              /\ IsSome(sealed)
              /\ last'.a1 = Unwrap(sealed).env
              /\ encryption_key = Some(Unwrap(sealed).key)) =>
                 last'.ret = Ok(Unwrap(sealed).plaintext)]_vars

\* decrypt_data has returned the non-empty plaintext of the envelope that
\* encrypt_data made with the second nonce
C8_Witness ==
    /\ last.op = "decrypt_data"
    /\ IsSome(sealed)
    /\ last.a1 = Unwrap(sealed).env
    /\ Unwrap(sealed).plaintext # <<>>
    /\ Unwrap(sealed).nonce = NonceOf(2)
    /\ last.ret = Ok(Unwrap(sealed).plaintext)

\* C9: decryption fails closed.  decrypt_data of the envelope encrypt_data
\* returned, altered in its nonce, its ciphertext or its tag or cut short, under
\* the key that sealed it, and decrypt_data of the unaltered envelope under a
\* key derived from another passphrase, return an Encryption error, no plaintext.
C9_FailsClosed ==
    [][\A t \in Threads :
          (Returns(t, "decrypt_data") /\ IsSome(sealed) /\ IsSome(encryption_key)) =>
              /\ (/\ encryption_key = Some(Unwrap(sealed).key)
                  /\ IsOk(Base64Decode(last'.a1))
                  /\ \E k \in TamperKinds :
                         Base64Decode(last'.a1).val =
                             TamperBytes(Base64Decode(Unwrap(sealed).env).val, k)) =>
                     (IsErr(last'.ret) /\ last'.ret.kind = "Encryption")
              /\ (/\ encryption_key # Some(Unwrap(sealed).key)
                  /\ last'.a1 = Unwrap(sealed).env) =>
                     (IsErr(last'.ret) /\ last'.ret.kind = "Encryption")]_vars

\* decrypt_data has refused an envelope whose first ciphertext byte was altered
C9_Witness ==
    /\ last.op = "decrypt_data"
    /\ IsSome(sealed)
    /\ encryption_key = Some(Unwrap(sealed).key)
    /\ Unwrap(sealed).plaintext # <<>>
    /\ last.a1 = Tamper(Unwrap(sealed).env, "body_first")
    /\ last.ret = AeadError

\* C10: short-envelope rejection.  With a key installed, decrypt_data of a
\* text that decodes to fewer than 12 bytes returns the Encryption error
\* "Invalid ciphertext"; a text that decodes to 12 bytes or more is split at 12
\* and its result is that of the authenticated decryption of the two parts.
C10_ShortEnvelope ==
    [][\A t \in Threads :
          (/\ Returns(t, "decrypt_data")
           /\ IsSome(encryption_key)
           /\ IsOk(Base64Decode(last'.a1))) =>
              \A d \in {Base64Decode(last'.a1).val} :
                  /\ Len(d) < NonceLen => last'.ret = InvalidCiphertext
                  /\ Len(d) >= NonceLen =>
                         /\ last'.ret # InvalidCiphertext
                         /\ \A p \in {Open(Unwrap(encryption_key),
                                           Take(d, NonceLen), Drop(d, NonceLen))} :
                                last'.ret = IF IsErr(p) THEN p ELSE FromUtf8(p.val)]_vars

\* decrypt_data has refused an envelope of eleven bytes under an installed key
C10_Witness ==
    /\ last.op = "decrypt_data"
    /\ IsSome(encryption_key)
    /\ IsOk(Base64Decode(last.a1))
    /\ Len(Base64Decode(last.a1).val) = NonceLen - 1
    /\ last.ret = InvalidCiphertext

\* C11: failures do not corrupt shared state.  Every step in which db_init,
\* db_execute, db_query, encrypt_data or decrypt_data returns an error leaves
\* the connection slot, the key slot and the CSRF map exactly as they were, so
\* what was installed before the failing call is there for the next call.
C11_FailuresKeepState ==
    [][\A t \in Threads :
          (/\ call[t] \in {"db_init", "db_execute", "db_query",
                           "encrypt_data", "decrypt_data"}
           /\ pc[t] # "idle" /\ pc'[t] = "idle"
           /\ IsErr(last'.ret)) =>
              /\ db' = db
              /\ encryption_key' = encryption_key
              /\ oauth_states' = oauth_states]_vars

\* a query has failed with a connection, a key and a CSRF entry installed
C11_Witness ==
    /\ last.op = "db_query"
    /\ IsErr(last.ret)
    /\ IsSome(db)
    /\ IsSome(encryption_key)
    /\ DOMAIN oauth_states # {}

\* C12: vault delete is idempotent.  delete_credentials(P) returns Ok whether
\* or not P has an entry, unless the platform fails; it leaves P without an
\* entry and the entries of the other providers as they were; a
\* get_credentials(P) after a deletion of P and no store for P since returns
\* Ok(None), unless the platform fails.
C12_DeleteIdempotent ==
    [][\A t \in Threads :
          (pc[t] = "keyring" /\ pc'[t] = "idle") =>
              /\ call[t] = "delete_credentials" =>
                     /\ last'.ret \in {Ok(Unit), PlatformFailure}
                     /\ last'.ret = Ok(Unit) =>
                            /\ Entry(keyring', last'.a1) = None
                            /\ \A q \in Providers \ {last'.a1} :
                                   Entry(keyring', q) = Entry(keyring, q)
              /\ (call[t] = "get_credentials" /\ purged[last'.a1] >= 1) =>
                     last'.ret \in {Ok(None), PlatformFailure}
              /\ \A q \in Providers : purged'[q] >= 1 => Entry(keyring', q) = None]_vars

\* get_credentials has returned None for a provider deleted twice in a row,
\* while another provider has its entry
C12_Witness ==
    /\ last.op = "get_credentials"
    /\ last.ret = Ok(None)
    /\ purged[last.a1] = 2
    /\ \E q \in Providers \ {last.a1} : Entry(keyring, q) # None

InCritical(t) == pc[t] \in {"held", "write"}

\* C13: lock discipline.  In every state of every interleaving a thread holds
\* at most one of the three mutexes, and holds it exactly while it is in the
\* body of a command of that mutex (so a command that has returned, with Ok or
\* with an error, holds none); at most one thread is in the body of the
\* commands of a mutex; a thread that waits for a mutex waits for a thread
\* that is in such a body and can run to its return, so that no state is a deadlock.
C13_LockDiscipline ==
    /\ \A t \in Threads : Cardinality({m \in Mutexes : mutex[m] = t}) <= 1
    /\ \A m \in Mutexes :
           Cardinality({t \in Threads : InCritical(t) /\ MutexOf(call[t]) = m}) <= 1
    /\ \A t \in Threads : InCritical(t) => mutex[MutexOf(call[t])] = t
    /\ \A t \in Threads : ~InCritical(t) => \A m \in Mutexes : mutex[m] # t
    /\ \A t \in Threads :
           pc[t] = "lock" =>
               \/ mutex[MutexOf(call[t])] = 0
               \/ InCritical(mutex[MutexOf(call[t])])

\* a command has returned an error and left its mutex free for the thread that
\* waits for it
C13_Witness ==
    /\ IsErr(last.ret)
    /\ last.op \in {"db_execute", "decrypt_data"}
    /\ mutex[MutexOf(last.op)] = 0
    /\ \E u \in Threads : pc[u] = "lock" /\ MutexOf(call[u]) = MutexOf(last.op)

\* The value read back by a db_query of column v that returned Ok in this step
ReadBack == last'.ret.val[1]["v"]

\* a JSON integer that fits a 64-bit signed integer, a float, a string or null
KeepsKind(v) ==
    CASE v.kind \in {"Null", "String"} -> TRUE
      [] v.kind = "Number" -> v.n.n = "PosInt" => v.n.hi = 0
      [] OTHER -> FALSE

\* C14 as stated: an integer, a float, a string, a boolean and null bound into
\* a column through json_to_sql and read back through row_value_to_json each
\* come back as an equal value of the same kind.
C14_RoundTripAllKinds ==
    [][\A t \in Threads :
          Returns(t, "db_query") /\ last'.a1 = SqlGet /\ IsOk(last'.ret) /\ IsSome(db)
          => \A v \in {bound[Unwrap(db).path]} :
                 KeepsKind(v) \/ v.kind = "Bool" => ReadBack = v]_vars

\* C14 as amended: a 64-bit signed integer, a float, a string and null bound
\* into a column through json_to_sql and read back through row_value_to_json
\* come back as an equal value of the same kind; a boolean comes back as the
\* integer 1 (true) or 0 (false).
C14_RoundTripBoolAsInteger ==
    [][\A t \in Threads :
          Returns(t, "db_query") /\ last'.a1 = SqlGet /\ IsOk(last'.ret) /\ IsSome(db)
          => \A v \in {bound[Unwrap(db).path]} :
                 /\ KeepsKind(v) => ReadBack = v
                 /\ v.kind = "Bool"
                    => ReadBack = JNumber(PosInt(0, IF v.b THEN 1 ELSE 0))]_vars

\* a read of the column returned the integer 1 after true was bound into it
C14_Witness ==
    /\ last.op = "db_query" /\ last.a1 = SqlGet
    /\ IsSome(db)
    /\ bound[Unwrap(db).path] = JBool(TRUE)
    /\ last.ret = Ok(<< [v |-> JNumber(PosInt(0, 1))] >>)

\* C15: re-initialization replaces the connection.  A db_init that returns Ok
\* leaves in the slot the connection that this call opened, which is not the
\* one installed before, and no statement still runs on the previous one; a
\* db_execute writes to, and a db_query reads from, the file of the connection
\* in the slot and no other; the slot holds one connection or none.
C15_ReinitReplaces ==
    [][\A t \in Threads :
          /\ Returns(t, "db_init") /\ IsOk(last'.ret)
             => /\ db' = Some(loc[t].conn)
                /\ IsSome(db) => Unwrap(db').id # Unwrap(db).id
                /\ \A u \in Threads :
                       pc'[u] = "write" => loc'[u].conn = Unwrap(db')
          /\ Returns(t, "db_init") => Len(db') <= 1
          /\ pc[t] = "write" /\ pc'[t] = "idle"
             => /\ IsSome(db) /\ loc[t].conn = Unwrap(db)
                /\ files'[Unwrap(db).path] = files[Unwrap(db).path] + 1
                /\ \A p \in DbPaths \ {Unwrap(db).path} : files'[p] = files[p]
          /\ Returns(t, "db_query") /\ IsOk(last'.ret)
             => /\ IsSome(db)
                /\ last'.ret.val[1]["n"] = JNumber(PosInt(0, files[Unwrap(db).path]))]_vars

\* a statement ran on the second connection installed, after one had run on
\* the first
C15_Witness ==
    /\ last.op = "db_execute" /\ IsOk(last.ret)
    /\ db = Some([id |-> 2, path |-> AltDbPath])
    /\ files[AltDbPath] >= 1
    /\ files[DefaultDbPath] >= 1

\* C16: nonce freshness.  For a given installed key no two encrypt_data calls
\* use the same 12-byte nonce; stated for a call and the one that returned an
\* envelope before it: an encrypt_data that returns Ok under the key of the
\* previous envelope does not use that envelope's nonce.
C16_NonceNeverReused ==
    [][\A t \in Threads :
          /\ Returns(t, "encrypt_data") /\ IsOk(last'.ret)
          /\ IsSome(sealed) /\ Unwrap(sealed).key = Unwrap(encryption_key)
          => last'.a2 # Unwrap(sealed).nonce]_vars

\* C17: key derivation is deterministic, so initializing again with the same
\* passphrase changes nothing.  An init_encryption with the passphrase of the
\* init_encryption before it leaves the installed key as it was, and the
\* envelope sealed under that key still decrypts to its plaintext; whenever
\* the passphrase in force is the one an envelope was sealed under, however
\* many initializations lie between, decrypt_data of the envelope returns its
\* plaintext.
C17_ReinitSamePassphrase ==
    [][\A t \in Threads :
          /\ Returns(t, "init_encryption") /\ passphrase = Some(last'.a1)
             => /\ encryption_key' = encryption_key
                /\ IsSome(sealed) /\ Unwrap(sealed).key = Unwrap(encryption_key)
                   => DecryptWith(encryption_key', Unwrap(sealed).env)
                          = Ok(Unwrap(sealed).plaintext)
          /\ /\ Returns(t, "decrypt_data")
             /\ IsSome(sealed) /\ last'.a1 = Unwrap(sealed).env
             /\ IsSome(passphrase)
             /\ Unwrap(sealed).key = DeriveKey(Unwrap(passphrase))
             => last'.ret = Ok(Unwrap(sealed).plaintext)]_vars

\* init_encryption has just returned for the passphrase that an outstanding
\* envelope was sealed under
C17_Witness ==
    /\ last.op = "init_encryption" /\ IsOk(last.ret)
    /\ IsSome(sealed)
    /\ Unwrap(sealed).key = DeriveKey(last.a1)
    /\ Unwrap(sealed).plaintext # << >>

\* the greatest index of a result column of the given name
Rightmost(column_names, name) ==
    CHOOSE i \in DOMAIN column_names :
        /\ column_names[i] = name
        /\ \A j \in DOMAIN column_names : column_names[j] = name => j <= i

\* C18: duplicate column names.  Every row that db_query returns has one
\* entry per distinct column name of the statement, and the entry of a name
\* holds the value of the rightmost result column of that name.
C18_LastColumnWins ==
    [][\A t \in Threads :
          Returns(t, "db_query") /\ IsOk(last'.ret) /\ IsSome(db)
          => \A names \in {ColumnNames(last'.a1)} :
             \A row \in {RowOf(last'.a1, Unwrap(db))} :
             \A i \in DOMAIN last'.ret.val :
                 /\ DOMAIN last'.ret.val[i] = {names[k] : k \in DOMAIN names}
                 /\ \A name \in DOMAIN last'.ret.val[i] :
                        last'.ret.val[i][name]
                            = row_value_to_json(row, Rightmost(names, name))]_vars

\* SELECT n, n + 1 AS n returned one entry, the value of the second column
C18_Witness ==
    /\ last.op = "db_query" /\ last.a1 = SqlDup
    /\ IsSome(db) /\ files[Unwrap(db).path] = 1
    /\ last.ret = Ok(<< [n |-> JNumber(PosInt(0, 2))] >>)

\* C19: concurrent validation is atomic.  Of the validations of one provider
\* and token that are in flight together against a single issued token, with
\* no issue for the provider in between, exactly one returns true: a
\* validation of the live token returns true, and every validation that was
\* in flight when it did and presents the same provider and token returns
\* false.
C19_OneWinner ==
    [][\A t \in Threads :
          Returns(t, "validate_oauth_state")
          => /\ csrf[last'.a1][last'.a2] \in Live => last'.ret = Ok(TRUE)
             /\ t \in race.rivals /\ race.won = << last'.a1, last'.a2 >>
                => last'.ret = Ok(FALSE)]_vars

\* a validation that was in flight with the one that consumed the token has
\* presented the same token and returned false
C19_Witness ==
    /\ race.lost = 1
    /\ last.op = "validate_oauth_state" /\ last.ret = Ok(FALSE)
    /\ race.won = << last.a1, last.a2 >>

\* C20: initialization is monotone.  Once a db_init has returned Ok the
\* connection slot is never empty again, and once init_encryption has returned
\* the key slot is never empty again, whatever commands succeed or fail
\* afterwards; so from then on db_execute and db_query never return "Database
\* not initialized" and encrypt_data and decrypt_data never return
\* "Encryption not initialized".
C20_InitMonotone ==
    /\ "db" \in initialized
       => /\ IsSome(db)
          /\ last.op \in {"db_execute", "db_query"} => last.ret # NotInitialized
    /\ "encryption_key" \in initialized
       => /\ IsSome(encryption_key)
          /\ last.op \in {"encrypt_data", "decrypt_data"}
             => last.ret # EncNotInitialized

\* both slots are initialized, and a decrypt_data has just failed after a
\* db_execute had succeeded
C20_Witness ==
    /\ initialized = {"db", "encryption_key"}
    /\ last.op = "decrypt_data" /\ IsErr(last.ret)
    /\ incs[DefaultDbPath] >= 1
    /\ IsSome(db) /\ IsSome(encryption_key)

====
